---- MODULE Spec2Model ----
(***************************************************************************)
(* City Scoring API (src/city_api.py): the dataset load at import, the     *)
(* __main__ start-up guard and the four request handlers.                  *)
(*                                                                         *)
(* Strings are sequences of one-character strings, so that lower() and     *)
(* the substring test "a in b" are computed.  Python dicts are sequences   *)
(* of [key, value] entries in insertion order.  JSON objects (a country    *)
(* group, a city entry, a request body, the query arguments) are functions *)
(* whose domain is the set of keys present.  Index values are integers in  *)
(* hundredths (180.00 is 18000); the weighted score is kept in units of    *)
(* 1/2000 so that the weights 0.25 .. 0.05 are exact.                      *)
(***************************************************************************)
EXTENDS Integers, Sequences, FiniteSets, TLC

VARIABLES fileStatus, countries_list, runAsMain, pc, loadFailed,
          CITIES_DATA, COUNTRIES, response

vars == <<fileStatus, countries_list, runAsMain, pc, loadFailed,
          CITIES_DATA, COUNTRIES, response>>

\* Total size of a dataset: one per country group plus one per city entry.
MaxSize == 4

-----------------------------------------------------------------------------
(* Strings *)

LowerChar(c) ==
    CASE c = "A" -> "a"
      [] c = "B" -> "b"
      [] c = "X" -> "x"
      [] c = "Y" -> "y"
      [] c = "Z" -> "z"
      [] OTHER -> c

Lower(s) == [i \in 1..Len(s) |-> LowerChar(s[i])]

\* Python's  sub in s  on strings
Contains(sub, s) ==
    \E i \in 0..(Len(s) - Len(sub)) : SubSeq(s, i + 1, i + Len(sub)) = sub

\* not s  for a string
Falsy(s) == Len(s) = 0

-----------------------------------------------------------------------------
(* Dicts *)

EmptyDict == << >>

HasKey(d, k) == \E i \in 1..Len(d) : d[i].key = k

IndexOfKey(d, k) == CHOOSE i \in 1..Len(d) : d[i].key = k

DictGet(d, k) == d[IndexOfKey(d, k)].value

\* d[k] = v : an existing key keeps its position, a new key goes last
DictSet(d, k, v) ==
    IF HasKey(d, k)
    THEN [d EXCEPT ![IndexOfKey(d, k)] = [key |-> k, value |-> v]]
    ELSE Append(d, [key |-> k, value |-> v])

\* {**a, **b} for JSON objects
Merge(a, b) ==
    [k \in (DOMAIN a) \cup (DOMAIN b) |-> IF k \in DOMAIN b THEN b[k] ELSE a[k]]

\* obj.get(k, default)
Get(obj, k, default) == IF k \in DOMAIN obj THEN obj[k] ELSE default

-----------------------------------------------------------------------------
(* Datasets the file cities_data.json may hold *)

Idx(whole, cents) == whole * 100 + cents

Indices(q, pp, s, h, c, prop, traf, pol, cl) ==
    [qualityOfLifeIndex |-> q, purchasingPowerIndex |-> pp, safetyIndex |-> s,
     healthCareIndex |-> h, costOfLivingIndex |-> c,
     propertyPriceToIncomeRatio |-> prop, trafficCommuteTimeIndex |-> traf,
     pollutionIndex |-> pol, climateIndex |-> cl]

\* 96.75: the worked example
ProfileBerlin ==
    Indices(Idx(180, 0), Idx(70, 0), Idx(85, 0), Idx(80, 0), Idx(60, 0),
            Idx(9, 25), Idx(30, 5), Idx(30, 0), Idx(65, 0))

\* quality q, climate cl, the rest fixed: score = (5q + cl + 114998) / 2000
ProfileNear(q, cl) ==
    Indices(q, Idx(100, 0), Idx(100, 0), Idx(100, 0), Idx(50, 0),
            Idx(7, 45), Idx(41, 15), Idx(50, 1), cl)

\* quality of life 1000.00, cost of living 60.00
ProfileHuge ==
    Indices(Idx(1000, 0), Idx(70, 0), Idx(85, 0), Idx(80, 0), Idx(60, 0),
            Idx(9, 25), Idx(30, 5), Idx(30, 0), Idx(65, 0))

CityAb == <<"A", "b">>
CityB == <<"b">>
CountryX == <<"X">>
CountryXY == <<"x", "Y">>

CityEntries ==
    { Merge([city |-> CityAb], ProfileBerlin),
      Merge([city |-> CityB], ProfileNear(Idx(250, 0), 1)),
      Merge([city |-> CityAb, country |-> CountryXY], ProfileHuge),
      ProfileBerlin }                         \* no "city" key

CountryNames == {CountryX, CountryXY}

RECURSIVE CityLists(_)
CityLists(n) ==
    IF n = 0 THEN { << >> }
    ELSE { Append(l, e) : l \in CityLists(n - 1), e \in CityEntries }

\* country groups of size exactly k
GroupsOfSize(k) ==
    { [country |-> c, cities |-> l] : c \in CountryNames, l \in CityLists(k - 1) }
    \cup (IF k = 1
          THEN { [country |-> c] : c \in CountryNames }     \* no "cities" key
               \cup { [cities |-> << >>] }                   \* no "country" key
          ELSE {})

RECURSIVE Datasets(_)
Datasets(n) ==
    { << >> } \cup
    UNION { { <<g>> \o d : g \in GroupsOfSize(k), d \in Datasets(n - k) } : k \in 1..n }

\* one country, one city, scores on and around the tier thresholds
TierDatasets ==
    { << [country |-> CountryX,
          cities |-> << Merge([city |-> CityB], ProfileNear(Idx(q, 0), cl)) >>] >> :
        q \in {90, 170, 250}, cl \in 0..3 }

-----------------------------------------------------------------------------
(* load_cities_data *)

\* for city_data in country_data["cities"]: ... ; st is [cd, co, failed]
RECURSIVE LoadCities(_, _, _, _)
LoadCities(cities, j, country, st) ==
    IF j > Len(cities) THEN st
    ELSE LET city_data == cities[j] IN
         IF "city" \notin DOMAIN city_data
         THEN [st EXCEPT !.failed = TRUE]                       \* KeyError
         ELSE LET city_name == city_data["city"]
                  city_key == city_name \o <<",", " ">> \o country
                  rec == Merge([city |-> city_name, country |-> country], city_data)
                  cd2 == DictSet(st.cd, city_key, rec)
                  co2 == DictSet(st.co, country, Append(DictGet(st.co, country), city_name))
              IN LoadCities(cities, j + 1, country, [st EXCEPT !.cd = cd2, !.co = co2])

\* for country_data in countries_list: ...
RECURSIVE LoadGroups(_, _, _)
LoadGroups(list, i, st) ==
    IF i > Len(list) THEN st
    ELSE LET country_data == list[i] IN
         IF "country" \notin DOMAIN country_data
         THEN [st EXCEPT !.failed = TRUE]                       \* KeyError
         ELSE LET country == country_data["country"]
                  st1 == [st EXCEPT !.co = DictSet(st.co, country, << >>)]
              IN IF "cities" \notin DOMAIN country_data
                 THEN [st1 EXCEPT !.failed = TRUE]              \* KeyError
                 ELSE LET st2 == LoadCities(country_data["cities"], 1, country, st1)
                      IN IF st2.failed THEN st2
                         ELSE LoadGroups(list, i + 1, st2)

\* the except clauses print and return: nothing is undone
LoadResult ==
    IF fileStatus # "ok"
    THEN [cd |-> CITIES_DATA, co |-> COUNTRIES, failed |-> TRUE]
    ELSE LoadGroups(countries_list, 1,
                    [cd |-> CITIES_DATA, co |-> COUNTRIES, failed |-> FALSE])

NoResponse == [endpoint |-> "none"]

Init ==
    /\ fileStatus \in {"ok", "missing", "unparsable"}
    /\ countries_list \in (IF fileStatus = "ok"
                           THEN Datasets(MaxSize) \cup TierDatasets
                           ELSE { << >> })
    /\ runAsMain \in BOOLEAN
    /\ pc = "import"
    /\ loadFailed = FALSE
    /\ CITIES_DATA = EmptyDict
    /\ COUNTRIES = EmptyDict
    /\ response = NoResponse

\* line 50: the module-level call; the file is read once
load_cities_data ==
    /\ pc = "import"
    /\ CITIES_DATA' = LoadResult.cd
    /\ COUNTRIES' = LoadResult.co
    /\ loadFailed' = LoadResult.failed
    /\ countries_list' = << >>
    /\ pc' = "loaded"
    /\ UNCHANGED <<fileStatus, runAsMain, response>>

\* if __name__ == "__main__": if not CITIES_DATA: exit(1)
MainExit ==
    /\ pc = "loaded"
    /\ runAsMain
    /\ Len(CITIES_DATA) = 0
    /\ pc' = "exited"
    /\ UNCHANGED <<fileStatus, countries_list, runAsMain, loadFailed,
                   CITIES_DATA, COUNTRIES, response>>

\* app.run(host='0.0.0.0', port=8000)
MainRun ==
    /\ pc = "loaded"
    /\ runAsMain
    /\ Len(CITIES_DATA) # 0
    /\ pc' = "serving"
    /\ UNCHANGED <<fileStatus, countries_list, runAsMain, loadFailed,
                   CITIES_DATA, COUNTRIES, response>>

\* the module imported by a WSGI host, which serves app without the guard
ImportedServe ==
    /\ pc = "loaded"
    /\ ~runAsMain
    /\ pc' = "serving"
    /\ UNCHANGED <<fileStatus, countries_list, runAsMain, loadFailed,
                   CITIES_DATA, COUNTRIES, response>>

-----------------------------------------------------------------------------
(* Numbers *)

Min(a, b) == IF a <= b THEN a ELSE b
Max(a, b) == IF a >= b THEN a ELSE b

\* n/d rounded to the nearest integer, halves to the even one (Python's round)
RoundHalfEven(n, d) ==
    LET q == n \div d
        r == n % d
    IN IF 2 * r < d THEN q
       ELSE IF 2 * r > d THEN q + 1
       ELSE IF q % 2 = 0 THEN q ELSE q + 1

\* round(x, 1) of an index value in hundredths, in tenths
Round1(v) == RoundHalfEven(v, 10)

\* stage_score, lines 120-128, in units of 1/2000
StageScore(city_data) ==
      city_data["qualityOfLifeIndex"] * 5
    + city_data["safetyIndex"] * 4
    + city_data["purchasingPowerIndex"] * 3
    + (Idx(100, 0) - city_data["costOfLivingIndex"]) * 3
    + city_data["healthCareIndex"] * 2
    + (Idx(100, 0) - city_data["pollutionIndex"]) * 2
    + city_data["climateIndex"] * 1

\* a whole number of the score's scale, in units of 1/2000
ScoreUnits(whole) == whole * 2000

\* round(stage_score, 1), in tenths
RoundScore(stage_score) == RoundHalfEven(stage_score, 200)

ExcellentMin == 120
GoodMin == 100
AverageMin == 80

\* the tier taken from the rounded score instead of the raw one
TierOfRounded(stage_score) ==
    IF RoundScore(stage_score) >= ExcellentMin * 10
    THEN [recommendation |-> "Excellent choix", recommendationLevel |-> "excellent"]
    ELSE IF RoundScore(stage_score) >= GoodMin * 10
    THEN [recommendation |-> "Bon choix", recommendationLevel |-> "good"]
    ELSE IF RoundScore(stage_score) >= AverageMin * 10
    THEN [recommendation |-> "Choix correct", recommendationLevel |-> "average"]
    ELSE [recommendation |-> "A considerer avec precaution", recommendationLevel |-> "poor"]

\* the if / elif chain of lines 130-141
Tier(stage_score) ==
    IF stage_score >= ScoreUnits(ExcellentMin)
    THEN [recommendation |-> "Excellent choix", recommendationLevel |-> "excellent"]
    ELSE IF stage_score >= ScoreUnits(GoodMin)
    THEN [recommendation |-> "Bon choix", recommendationLevel |-> "good"]
    ELSE IF stage_score >= ScoreUnits(AverageMin)
    THEN [recommendation |-> "Choix correct", recommendationLevel |-> "average"]
    ELSE [recommendation |-> "A considerer avec precaution", recommendationLevel |-> "poor"]

-----------------------------------------------------------------------------
(* POST /city/score *)

\* the match without lower()
search_city_case_sensitive(city_name) ==
    SelectSeq(CITIES_DATA, LAMBDA e : Contains(city_name, e.value["city"]))

\* the entries of CITIES_DATA, in order, whose city contains city_name
search_city(city_name) ==
    SelectSeq(CITIES_DATA,
              LAMBDA e : Contains(Lower(city_name), Lower(e.value["city"])))

\* [m for m in matches if country.lower() in m[1]["country"].lower()]
FilterByCountry(matches, country) ==
    SelectSeq(matches,
              LAMBDA m : Contains(Lower(country), Lower(m.value["country"])))

\* lines 118-161
ScoreResult(city_data) ==
    LET stage_score == StageScore(city_data) IN
    [found |-> TRUE,
     city |-> city_data["city"],
     country |-> city_data["country"],
     scores |-> [qualityOfLife |-> Round1(city_data["qualityOfLifeIndex"]),
                 purchasingPower |-> Round1(city_data["purchasingPowerIndex"]),
                 safety |-> Round1(city_data["safetyIndex"]),
                 healthCare |-> Round1(city_data["healthCareIndex"]),
                 costOfLiving |-> Round1(city_data["costOfLivingIndex"]),
                 propertyPriceToIncome |-> Round1(city_data["propertyPriceToIncomeRatio"]),
                 trafficCommuteTime |-> Round1(city_data["trafficCommuteTimeIndex"]),
                 pollution |-> Round1(city_data["pollutionIndex"]),
                 climate |-> Round1(city_data["climateIndex"])],
     internshipScore |-> RoundScore(stage_score),
     recommendation |-> Tier(stage_score).recommendation,
     recommendationLevel |-> Tier(stage_score).recommendationLevel]

\* lines 99-161: the lookup once city_name and the catalog are there
ScoreLookup(city_name, country) ==
    LET matches == search_city(city_name) IN
    IF Len(matches) = 0
    THEN [status |-> 404,
          body |-> [error |-> "Ville non trouvee", city |-> city_name, found |-> FALSE]]
    ELSE LET kept == IF Falsy(country) THEN matches
                     ELSE FilterByCountry(matches, country)
         IN IF Len(kept) = 0
            THEN [status |-> 404,
                  body |-> [error |-> "Ville non trouvee dans le pays",
                            city |-> city_name, country |-> country, found |-> FALSE]]
            ELSE [status |-> 200, body |-> ScoreResult(kept[1].value)]

\* the catalog test ahead of the city_name test
ScoreResponseCatalogFirst(data) ==
    LET city_name == Get(data, "city_name", << >>)
        country == Get(data, "country", << >>)
    IN IF Len(CITIES_DATA) = 0
       THEN [status |-> 500,
             body |-> [error |-> "Aucune donnee chargee", city |-> city_name,
                       found |-> FALSE]]
       ELSE IF Falsy(city_name)
       THEN [status |-> 400, body |-> [error |-> "city_name requis"]]
       ELSE ScoreLookup(city_name, country)

\* lines 85-97, then the lookup
ScoreResponse(data) ==
    LET city_name == Get(data, "city_name", << >>)
        country == Get(data, "country", << >>)
    IN IF Falsy(city_name)
       THEN [status |-> 400, body |-> [error |-> "city_name requis"]]
       ELSE IF Len(CITIES_DATA) = 0
       THEN [status |-> 500,
             body |-> [error |-> "Aucune donnee chargee", city |-> city_name,
                       found |-> FALSE]]
       ELSE ScoreLookup(city_name, country)

CityNameArgs == { << >>, <<"B">>, <<"a">>, <<"z">> }
CountryArgs == { << >>, <<"x">>, <<"y">>, <<"z">> }

ScoreBodies ==
    { Merge(n, c) :
        n \in { << >> } \cup { [city_name |-> v] : v \in CityNameArgs },
        c \in { << >> } \cup { [country |-> v] : v \in CountryArgs } }

find_city_score ==
    /\ pc = "serving"
    /\ response = NoResponse
    /\ \E data \in ScoreBodies :
         response' = [endpoint |-> "score", request |-> data,
                      status |-> ScoreResponse(data).status,
                      body |-> ScoreResponse(data).body]
    /\ UNCHANGED <<fileStatus, countries_list, runAsMain, pc, loadFailed,
                   CITIES_DATA, COUNTRIES>>

-----------------------------------------------------------------------------
(* GET /cities/list *)

DefaultMinQuality == 0
DefaultMaxCost == 200
DefaultLimit == 20

\* the min_quality test left out
KeepRecordNoQuality(data, country, min_quality, max_cost) ==
    /\ ~(~Falsy(country) /\ ~Contains(Lower(country), Lower(data["country"])))
    /\ ~(data["costOfLivingIndex"] > max_cost)

\* the three  continue  tests of lines 186-191
KeepRecord(data, country, min_quality, max_cost) ==
    /\ ~(~Falsy(country) /\ ~Contains(Lower(country), Lower(data["country"])))
    /\ ~(data["qualityOfLifeIndex"] < min_quality)
    /\ ~(data["costOfLivingIndex"] > max_cost)

\* lines 193-199
CitySummary(data) ==
    [city |-> data["city"],
     country |-> data["country"],
     qualityOfLife |-> Round1(data["qualityOfLifeIndex"]),
     costOfLiving |-> Round1(data["costOfLivingIndex"]),
     safety |-> Round1(data["safetyIndex"])]

\* x placed after every element whose qualityOfLife is at least its own
InsertByQuality(sorted, x) ==
    LET before == { i \in 1..Len(sorted) : sorted[i].qualityOfLife >= x.qualityOfLife }
        n == Cardinality(before)
    IN SubSeq(sorted, 1, n) \o <<x>> \o SubSeq(sorted, n + 1, Len(sorted))

\* filtered.sort(key=qualityOfLife, reverse=True): stable
RECURSIVE SortByQuality(_)
SortByQuality(s) ==
    IF Len(s) = 0 THEN << >>
    ELSE InsertByQuality(SortByQuality(SubSeq(s, 1, Len(s) - 1)), s[Len(s)])

\* one entry too many
SliceOffByOne(s, limit) ==
    IF limit >= 0 THEN SubSeq(s, 1, Min(limit + 1, Len(s)))
    ELSE SubSeq(s, 1, Max(0, Len(s) + limit + 1))

\* s[:limit]
Slice(s, limit) ==
    IF limit >= 0 THEN SubSeq(s, 1, Min(limit, Len(s)))
    ELSE SubSeq(s, 1, Max(0, Len(s) + limit))

Values(d) == [i \in 1..Len(d) |-> d[i].value]

ListResponse(args) ==
    LET country == Get(args, "country", << >>)
        min_quality == Get(args, "min_quality", Idx(DefaultMinQuality, 0))
        max_cost == Get(args, "max_cost", Idx(DefaultMaxCost, 0))
        limit == Get(args, "limit", DefaultLimit)
    IN IF Len(CITIES_DATA) = 0
       THEN [status |-> 500,
             body |-> [error |-> "Aucune donnee chargee", cities |-> << >>]]
       ELSE LET kept == SelectSeq(Values(CITIES_DATA),
                            LAMBDA data : KeepRecord(data, country, min_quality, max_cost))
                filtered == Slice(SortByQuality([i \in 1..Len(kept) |-> CitySummary(kept[i])]),
                                  limit)
            IN [status |-> 200,
                body |-> [total |-> Len(filtered), cities |-> filtered]]

ListArgs ==
    { Merge(Merge(c, q), Merge(m, l)) :
        c \in { << >>, [country |-> <<"y">>] },
        q \in { << >>, [min_quality |-> Idx(999, 0)] },
        m \in { << >>, [max_cost |-> Idx(55, 0)] },
        l \in { << >> } \cup { [limit |-> v] : v \in {-1, 0, 1} } }

\* the sort applied to the catalog itself rather than to the filtered copy
list_cities_sorting_catalog ==
    /\ pc = "serving"
    /\ response = NoResponse
    /\ \E args \in ListArgs :
         response' = [endpoint |-> "list", request |-> args,
                      status |-> ListResponse(args).status,
                      body |-> ListResponse(args).body]
    /\ CITIES_DATA' =
         LET RECURSIVE ByQuality(_)
             ByQuality(s) ==
                 IF Len(s) = 0 THEN << >>
                 ELSE LET rest == ByQuality(SubSeq(s, 1, Len(s) - 1))
                          x == s[Len(s)]
                          n == Cardinality({ i \in 1..Len(rest) :
                                   rest[i].value["qualityOfLifeIndex"]
                                     >= x.value["qualityOfLifeIndex"] })
                      IN SubSeq(rest, 1, n) \o <<x>> \o SubSeq(rest, n + 1, Len(rest))
         IN ByQuality(CITIES_DATA)
    /\ UNCHANGED <<fileStatus, countries_list, runAsMain, pc, loadFailed, COUNTRIES>>

list_cities ==
    /\ pc = "serving"
    /\ response = NoResponse
    /\ \E args \in ListArgs :
         response' = [endpoint |-> "list", request |-> args,
                      status |-> ListResponse(args).status,
                      body |-> ListResponse(args).body]
    /\ UNCHANGED <<fileStatus, countries_list, runAsMain, pc, loadFailed,
                   CITIES_DATA, COUNTRIES>>

-----------------------------------------------------------------------------
(* GET /countries and GET /health *)

\* x placed after every entry with at least as many cities
InsertByCount(sorted, x) ==
    LET before == { i \in 1..Len(sorted) : Len(sorted[i].value) >= Len(x.value) }
        n == Cardinality(before)
    IN SubSeq(sorted, 1, n) \o <<x>> \o SubSeq(sorted, n + 1, Len(sorted))

\* sorted(COUNTRIES.items(), key=lambda x: len(x[1]), reverse=True)
RECURSIVE SortByCount(_)
SortByCount(s) ==
    IF Len(s) = 0 THEN << >>
    ELSE InsertByCount(SortByCount(SubSeq(s, 1, Len(s) - 1)), s[Len(s)])

CountriesResponse ==
    IF Len(COUNTRIES) = 0
    THEN [status |-> 500,
          body |-> [error |-> "Aucune donnee chargee", countries |-> << >>]]
    ELSE LET ordered == SortByCount(COUNTRIES)
             countries_list_out ==
                 [i \in 1..Len(ordered) |->
                     [country |-> ordered[i].key, cityCount |-> Len(ordered[i].value)]]
         IN [status |-> 200,
             body |-> [total |-> Len(COUNTRIES),
                       totalCities |-> Len(CITIES_DATA),
                       countries |-> countries_list_out]]

get_countries ==
    /\ pc = "serving"
    /\ response = NoResponse
    /\ response' = [endpoint |-> "countries", request |-> << >>,
                    status |-> CountriesResponse.status,
                    body |-> CountriesResponse.body]
    /\ UNCHANGED <<fileStatus, countries_list, runAsMain, pc, loadFailed,
                   CITIES_DATA, COUNTRIES>>

health_check ==
    /\ pc = "serving"
    /\ response = NoResponse
    /\ response' = [endpoint |-> "health", request |-> << >>,
                    status |-> 200,
                    body |-> [status |-> "healthy",
                              cities_loaded |-> Len(CITIES_DATA),
                              countries |-> Len(COUNTRIES)]]
    /\ UNCHANGED <<fileStatus, countries_list, runAsMain, pc, loadFailed,
                   CITIES_DATA, COUNTRIES>>

\* Flask writes the returned response to the client; the next request follows
SendResponse ==
    /\ pc = "serving"
    /\ response # NoResponse
    /\ response' = NoResponse
    /\ UNCHANGED <<fileStatus, countries_list, runAsMain, pc, loadFailed,
                   CITIES_DATA, COUNTRIES>>

Next ==
    \/ load_cities_data
    \/ MainExit
    \/ MainRun
    \/ ImportedServe
    \/ health_check
    \/ find_city_score
    \/ list_cities
    \/ get_countries
    \/ SendResponse

Spec == Init /\ [][Next]_vars

-----------------------------------------------------------------------------
(* The claims *)

Served(endpoint) == pc = "serving" /\ response.endpoint = endpoint

NameOf(data) == Get(data, "city_name", << >>)
FilterOf(data) == Get(data, "country", << >>)

\* positions of the records whose city contains name, whatever the case
CityMatches(name) ==
    { i \in 1..Len(CITIES_DATA) :
        Contains(Lower(name), Lower(CITIES_DATA[i].value["city"])) }

\* those whose country also contains the filter, when one is given
CountryMatches(name, filter) ==
    { i \in CityMatches(name) :
        Len(filter) = 0
        \/ Contains(Lower(filter), Lower(CITIES_DATA[i].value["country"])) }

Least(S) == CHOOSE i \in S : \A j \in S : i <= j

RECURSIVE SumCityCount(_)
SumCityCount(s) ==
    IF Len(s) = 0 THEN 0 ELSE s[1].cityCount + SumCityCount(Tail(s))

\* C1: when the load fails, at whatever point, CITIES_DATA and COUNTRIES are
\* both empty afterwards: nothing inserted before the failure remains.
C1_LoadAllOrNothing ==
    (pc # "import" /\ loadFailed) => (Len(CITIES_DATA) = 0 /\ Len(COUNTRIES) = 0)

\* C2: run as a script, the process serves (and handles a request) only when
\* the load completed without failure and produced at least one city.
C2_ServesOnlyAfterCleanLoad ==
    (runAsMain /\ (pc = "serving" \/ response # NoResponse))
        => (~loadFailed /\ Len(CITIES_DATA) > 0)

\* C3: in every 200 answer of /countries the cityCount values sum to
\* totalCities, the number of records in the catalog.
C3_CityCountsSumToTotal ==
    (Served("countries") /\ response.status = 200)
        => /\ response.body.totalCities = Len(CITIES_DATA)
           /\ SumCityCount(response.body.countries) = response.body.totalCities

\* C4: whenever the catalog holds no city record, so that /city/score (with a
\* city_name) and /cities/list answer 500, /countries answers 500 as well.
C4_CountriesUnavailableWhenEmpty ==
    (/\ pc = "serving"
     /\ ScoreResponse([city_name |-> <<"B">>]).status = 500
     /\ ListResponse(<< >>).status = 500)
        => CountriesResponse.status = 500

\* C5 as written: for every integer limit, negative ones included, the
\* returned sequence has at most limit entries and total is its length.
C5_LengthAtMostAnyLimit ==
    (Served("list") /\ response.status = 200)
        => /\ Len(response.body.cities) <= Get(response.request, "limit", DefaultLimit)
           /\ response.body.total = Len(response.body.cities)

\* C5 amended: total is the length of the returned sequence for every limit,
\* and the length is at most limit for every limit that is not negative.
C5_LengthAtMostLimit ==
    (Served("list") /\ response.status = 200)
        => LET limit == Get(response.request, "limit", DefaultLimit) IN
           /\ response.body.total = Len(response.body.cities)
           /\ (limit >= 0 => Len(response.body.cities) <= limit)

\* C5 witness: limit 1 cuts a listing of two or more records down to one.
C5_Truncated ==
    /\ Served("list") /\ response.status = 200
    /\ response.request = [limit |-> 1]
    /\ Len(CITIES_DATA) >= 2
    /\ Len(response.body.cities) = 1

OnlyMinQuality999 == response.request = [min_quality |-> Idx(999, 0)]

\* C6 as written: on a non-empty catalog min_quality=999 alone returns total 0
\* and no city.
C6_MinQuality999Empty ==
    (Served("list") /\ OnlyMinQuality999 /\ Len(CITIES_DATA) > 0)
        => (response.body.total = 0 /\ Len(response.body.cities) = 0)

\* C6 amended: on a non-empty catalog min_quality=999 alone returns total 0
\* and no city exactly when no record has qualityOfLifeIndex >= 999 and
\* costOfLivingIndex <= 200; every returned city is such a record.
C6_MinQuality999OnlyHigh ==
    (Served("list") /\ OnlyMinQuality999 /\ Len(CITIES_DATA) > 0)
        => LET high == { i \in 1..Len(CITIES_DATA) :
                           /\ CITIES_DATA[i].value["qualityOfLifeIndex"] >= 99900
                           /\ CITIES_DATA[i].value["costOfLivingIndex"] <= 20000 }
           IN /\ response.status = 200
              /\ response.body.total = Len(response.body.cities)
              /\ (response.body.total = 0 <=> high = {})
              /\ \A k \in 1..Len(response.body.cities) :
                    \E i \in high :
                       /\ CITIES_DATA[i].value["city"] = response.body.cities[k].city
                       /\ CITIES_DATA[i].value["country"] = response.body.cities[k].country

\* C6 witness: a catalog with records, none that high, answers total 0.
C6_NothingThatHigh ==
    /\ Served("list") /\ OnlyMinQuality999
    /\ Len(CITIES_DATA) >= 2
    /\ response.status = 200 /\ response.body.total = 0

\* C7: an empty or absent city_name is answered 400 whatever the catalog
\* holds, ahead of the 500 of an empty catalog and of the 404s.
C7_EmptyNameIs400 ==
    (Served("score") /\ Len(NameOf(response.request)) = 0)
        => (response.status = 400 /\ response.body.error = "city_name requis")

\* C7 witness: the 400 given while the catalog is empty.
C7_EmptyNameOnEmptyCatalog ==
    /\ Served("score")
    /\ "city_name" \notin DOMAIN response.request
    /\ Len(CITIES_DATA) = 0
    /\ response.status = 400

\* C8: the tier of a scored record follows the raw score with closed lower
\* bounds 120, 100 and 80, one tier for each score, whatever the score
\* rounds to.
C8_TierFromRawScore ==
    (Served("score") /\ response.status = 200)
        => LET rec == CITIES_DATA[Least(CountryMatches(NameOf(response.request),
                                                       FilterOf(response.request)))].value
               raw == StageScore(rec)
               level == response.body.recommendationLevel
           IN /\ level \in {"excellent", "good", "average", "poor"}
              /\ (level = "excellent" <=> raw >= 120 * 2000)
              /\ (level = "good" <=> (100 * 2000 <= raw /\ raw < 120 * 2000))
              /\ (level = "average" <=> (80 * 2000 <= raw /\ raw < 100 * 2000))
              /\ (level = "poor" <=> raw < 80 * 2000)

\* C8 witness: a score shown as 120.0 whose raw value is below 120 is good.
C8_RoundsUpStaysGood ==
    /\ Served("score") /\ response.status = 200
    /\ response.body.internshipScore = 1200
    /\ response.body.recommendationLevel = "good"

\* C9: no request handler, whatever its arguments and outcome, changes
\* CITIES_DATA or COUNTRIES once the load has finished.
C9_RequestsLeaveCatalog ==
    [][pc = "serving" => (CITIES_DATA' = CITIES_DATA /\ COUNTRIES' = COUNTRIES)]_vars

\* C9 witness: a listing that reorders two records has been answered.
C9_ListingReordered ==
    /\ Served("list") /\ response.status = 200
    /\ Len(response.body.cities) = 2
    /\ response.body.cities[1].city = CITIES_DATA[2].value["city"]
    /\ response.body.cities[1].city # CITIES_DATA[1].value["city"]

\* C10: with a city_name and a non-empty catalog, the answer is 404 "not
\* found" exactly when no record's city contains the name, 404 "not found in
\* country" exactly when some do but none of them in a matching country, and
\* otherwise the score of the first matching record in insertion order.
C10_FirstMatchScored ==
    (Served("score") /\ Len(NameOf(response.request)) > 0 /\ Len(CITIES_DATA) > 0)
        => LET name == NameOf(response.request)
               filter == FilterOf(response.request)
               byCity == CityMatches(name)
               byBoth == CountryMatches(name, filter)
               notFound == response.status = 404
                           /\ response.body.error = "Ville non trouvee"
               notInCountry == response.status = 404
                               /\ response.body.error = "Ville non trouvee dans le pays"
           IN /\ (notFound <=> byCity = {})
              /\ (notInCountry <=> (byCity # {} /\ byBoth = {}))
              /\ byBoth # {} =>
                    /\ response.status = 200
                    /\ response.body = ScoreResult(CITIES_DATA[Least(byBoth)].value)

\* C10 witness: the country filter passes over the first record matching the
\* name and the later one is scored.
C10_LaterRecordScored ==
    /\ Served("score") /\ response.status = 200
    /\ Len(FilterOf(response.request)) > 0
    /\ Least(CountryMatches(NameOf(response.request), FilterOf(response.request)))
         > Least(CityMatches(NameOf(response.request)))
====
